---- MODULE Spec2Model ----
(***************************************************************************)
(* Model of the colour-matching repository.                                *)
(*                                                                         *)
(*   src/color_learning.py        candidate generation and the surrogate   *)
(*                                optimizer                                *)
(*   src/main_color_matching.py   the protocol run: plate bookkeeping,     *)
(*                                add_color, the TESTING block and the     *)
(*                                active_learning step with its driver     *)
(*                                                                         *)
(* Python lists are 0-based and the sequences here are 1-based: a dye or   *)
(* row index i of the source is position i + 1 here.                       *)
(*                                                                         *)
(* Collaborators the source leaves to the environment:                     *)
(*   - the camera (get_color, a stub in the source) returns colours drawn  *)
(*     from TargetColors / CameraColors;                                   *)
(*   - the labware definition supplies the plate's well capacity, drawn    *)
(*     from well_max_volumes;                                              *)
(*   - Python's random module is a stream of raw draws (an explicit tape   *)
(*     followed by a congruential generator), chosen by the seed;          *)
(*   - scikit-learn's regressor is the variable sklearn: it either raises  *)
(*     in fit, raises in predict, or ranks the candidate pool.             *)
(* The pipette and the tip inventory carry no part of the decisions        *)
(* modelled here and are left out.  The call of add_color at               *)
(* main_color_matching.py:289 is modelled with the tip-rack argument the   *)
(* calls at lines 190-192 pass.                                            *)
(***************************************************************************)
EXTENDS Integers, Sequences, FiniteSets, TLC

\* ------------------------------------------------------------ constants

color_slots == <<"7", "8", "9">>
ascii_uppercase == <<"A", "B", "C", "D", "E", "F", "G">>

MAX_WELL_VOLUME == 200
TOLERANCE == 30
MIN_STEP == 1
MAX_ITERATIONS == 11
n_combinations == 4
n_samples == 50
max_attempts == 1000
PlateColumns == 12

\* float('inf') as a squared distance: above 3 * 255^2, the largest one
Infinity == 195076

\* The rows the session works through: the first NumRows of the source's
\* seven ('A'..'G').
NumRows == 2
\* Cap on the draws of a retry loop that has no cap in the source; a loop
\* that reaches it is reported as not returning.
MaxRetry == 40
\* Number of passes of a long loop that are evaluated in one go.
Stride == 32

rows_to_process == SubSeq(ascii_uppercase, 1, NumRows)

\* ------------------------------------------------------------ helpers

RECURSIVE SumSeq(_)
SumSeq(s) == IF s = <<>> THEN 0 ELSE Head(s) + SumSeq(Tail(s))

Range(s) == {s[i] : i \in DOMAIN s}

Zeros(n) == [i \in 1..n |-> 0]

NonZero(vols) == {i \in DOMAIN vols : vols[i] > 0}

\* ------------------------------------------------------------ colour scoring

\* sum((c1 - c2) ** 2 ...): the square of calculate_distance_to_target.
\* math.sqrt is strictly increasing and exact enough on these integers
\* (below 2^18) that comparing squares decides every comparison of distances.
SqDistance(color, target_rgb) ==
    (color[1] - target_rgb[1]) * (color[1] - target_rgb[1])
  + (color[2] - target_rgb[2]) * (color[2] - target_rgb[2])
  + (color[3] - target_rgb[3]) * (color[3] - target_rgb[3])

\* math.sqrt of a sum of integer squares n: the integer part of the root,
\* and whether the root is that integer.  The float math.sqrt returns is that
\* integer exactly when n is a perfect square, and lies strictly between two
\* integers otherwise (n is below 2^18, so the root of a non-square is
\* farther from every integer than the float's precision).
sqrt(n) ==
    LET r == CHOOSE k \in 0..n : k * k <= n /\ (k + 1) * (k + 1) > n
    IN  [floor |-> r, exact |-> r * r = n]

calculate_distance_to_target(color, target_rgb) == sqrt(SqDistance(color, target_rgb))

\* distance <= tolerance, for an integer tolerance
distance_le(distance, tolerance) ==
    distance.floor < tolerance \/ (distance.floor = tolerance /\ distance.exact)

within_tolerance_strict(color, target_rgb, tolerance) ==
    SqDistance(color, target_rgb) < tolerance * tolerance

\* The squares compared, whatever the sign of the tolerance.
within_tolerance_squares(color, target_rgb, tolerance) ==
    SqDistance(color, target_rgb) <= tolerance * tolerance

within_tolerance(color, target_rgb, tolerance) ==
    distance_le(calculate_distance_to_target(color, target_rgb), tolerance)

\* ------------------------------------------------------------ random

\* The state of the random module: raw draws still on the tape, then the
\* generator's state.  Every call of the module consumes one raw draw.
Advance(rng) ==
    IF rng.tape # <<>> THEN [rng EXCEPT !.tape = Tail(@)]
    ELSE [rng EXCEPT !.state = (75 * @ + 74) % 65537]

Raw(rng) == IF rng.tape # <<>> THEN Head(rng.tape) ELSE (75 * rng.state + 74) % 65537

\* random.randint(a, b): a value of a..b
randint(a, b, rng) == a + (Raw(rng) % (b - a + 1))

\* random.random() < 0.7
random_lt_07(rng) == (Raw(rng) % 10) < 7


\* ------------------------------------------------------------ random_combination

\* One step-unit for a randomly chosen primary dye.
rc_primary(dye_count, step, max_volume, rng) ==
    IF max_volume > 0 /\ dye_count > 0
    THEN [vols   |-> [Zeros(dye_count) EXCEPT ![randint(0, dye_count - 1, rng) + 1] = step],
          remain |-> max_volume - step,
          rng    |-> Advance(rng)]
    ELSE [vols |-> Zeros(dye_count), remain |-> max_volume, rng |-> rng]

\* for i in range(dye_count): with probability 0.7 a random multiple of step
RECURSIVE rc_loop(_, _, _, _)
rc_loop(i, st, dye_count, step) ==
    IF i > dye_count \/ st.remain <= 0 THEN st
    ELSE IF ~random_lt_07(st.rng)
    THEN rc_loop(i + 1, [st EXCEPT !.rng = Advance(@)], dye_count, step)
    ELSE LET r1 == Advance(st.rng)
             possible_steps == st.remain \div step
         IN  IF possible_steps > 0
             THEN LET vol == randint(0, possible_steps, r1) * step
                  IN  rc_loop(i + 1,
                              [vols   |-> [st.vols EXCEPT ![i] = @ + vol],
                               remain |-> st.remain - vol,
                               rng    |-> Advance(r1)],
                              dye_count, step)
             ELSE rc_loop(i + 1, [st EXCEPT !.rng = r1], dye_count, step)

rc_lucky_twice(st, dye_count) ==
    IF st.remain > 0 /\ dye_count > 0
    THEN [vols |-> [st.vols EXCEPT ![randint(0, dye_count - 1, st.rng) + 1] = @ + 2 * st.remain],
          rng  |-> Advance(st.rng)]
    ELSE [vols |-> st.vols, rng |-> st.rng]

\* The leftover goes to one randomly chosen dye.
rc_lucky(st, dye_count) ==
    IF st.remain > 0 /\ dye_count > 0
    THEN [vols |-> [st.vols EXCEPT ![randint(0, dye_count - 1, st.rng) + 1] = @ + st.remain],
          rng  |-> Advance(st.rng)]
    ELSE [vols |-> st.vols, rng |-> st.rng]

\* Returns the mixture and the state the random module is left in.
random_combination(dye_count, step, max_volume, rng) ==
    rc_lucky(rc_loop(1, rc_primary(dye_count, step, max_volume, rng), dye_count, step),
             dye_count)

\* ------------------------------------------------------------ generate_diverse_candidates

\* The pairs i < j and the triples i < j < k in the order of the nested loops.
RECURSIVE PairsFrom(_, _, _)
PairsFrom(i, j, d) ==
    IF i > d THEN <<>>
    ELSE IF j > d THEN PairsFrom(i + 1, i + 2, d)
    ELSE <<<<i, j>>>> \o PairsFrom(i, j + 1, d)

RECURSIVE TriplesFrom(_, _, _, _)
TriplesFrom(i, j, k, d) ==
    IF i > d THEN <<>>
    ELSE IF j > d THEN TriplesFrom(i + 1, i + 2, i + 3, d)
    ELSE IF k > d THEN TriplesFrom(i, j + 1, j + 2, d)
    ELSE <<<<i, j, k>>>> \o TriplesFrom(i, j, k + 1, d)

\* ratio in [0.2, 0.5, 0.8], written in tenths
ratios == <<2, 5, 8>>

single_candidate(i, dye_count, max_volume) ==
    [Zeros(dye_count) EXCEPT ![i] = max_volume]

\* candidate[i] = int(max_volume * ratio / step) * step; candidate[j] = the rest
pair_candidate(p, tenths, dye_count, max_volume, step) ==
    LET first == ((max_volume * tenths) \div (10 * step)) * step
    IN  [Zeros(dye_count) EXCEPT ![p[1]] = first, ![p[2]] = max_volume - first]

triple_candidate(t, dye_count, max_volume) ==
    LET third == max_volume \div 3
    IN  [Zeros(dye_count) EXCEPT ![t[1]] = third, ![t[2]] = third,
                                 ![t[3]] = max_volume - third - third]

single_candidates(dye_count, max_volume) ==
    [i \in 1..dye_count |-> single_candidate(i, dye_count, max_volume)]

pair_candidates(dye_count, max_volume, step) ==
    LET ps == PairsFrom(1, 2, dye_count)
    IN  [n \in 1..(3 * Len(ps)) |->
            pair_candidate(ps[((n - 1) \div 3) + 1], ratios[((n - 1) % 3) + 1],
                           dye_count, max_volume, step)]

triple_candidates(dye_count, max_volume) ==
    LET ts == TriplesFrom(1, 2, 3, dye_count)
    IN  [n \in 1..Len(ts) |-> triple_candidate(ts[n], dye_count, max_volume)]

\* No candidate appended.
gdc_offer_nothing(st, candidate, early) == st

\* The candidate appended without looking it up in seen.
gdc_offer_unseen(st, candidate, early) ==
    IF st.returned THEN st
    ELSE [candidates    |-> Append(st.candidates, candidate),
          seen          |-> st.seen \cup {candidate},
          n_to_generate |-> st.n_to_generate - 1,
          returned      |-> early /\ st.n_to_generate - 1 <= 0]

\* "if tuple_candidate not in seen: ... n_to_generate -= 1", and, where the
\* loop has one (early), "if n_to_generate <= 0: return candidates".
gdc_offer(st, candidate, early) ==
    IF st.returned \/ candidate \in st.seen THEN st
    ELSE [candidates    |-> Append(st.candidates, candidate),
          seen          |-> st.seen \cup {candidate},
          n_to_generate |-> st.n_to_generate - 1,
          returned      |-> early /\ st.n_to_generate - 1 <= 0]

RECURSIVE gdc_offer_all(_, _, _)
gdc_offer_all(st, cands, early) ==
    IF cands = <<>> THEN st
    ELSE gdc_offer_all(gdc_offer(st, Head(cands), early), Tail(cands), early)

\* while n_to_generate > 0 and attempts < n_to_generate * 5
gdc_fill_continues(st, attempts) ==
    ~st.returned /\ st.n_to_generate > 0 /\ attempts < st.n_to_generate * 5

\* Up to k passes of the fill loop.
RECURSIVE gdc_fill_passes(_, _, _, _, _)
gdc_fill_passes(fs, k, dye_count, max_volume, step) ==
    IF k = 0 \/ ~gdc_fill_continues(fs.st, fs.attempts) THEN fs
    ELSE LET rc == random_combination(dye_count, step, max_volume, fs.rng)
         IN  gdc_fill_passes([st       |-> gdc_offer(fs.st, rc.vols, FALSE),
                              attempts |-> fs.attempts + 1,
                              rng      |-> rc.rng],
                             k - 1, dye_count, max_volume, step)

\* The fill loop, evaluated Stride passes at a time.
RECURSIVE gdc_fill(_, _, _, _, _, _)
gdc_fill(st, attempts, rng, dye_count, max_volume, step) ==
    IF ~gdc_fill_continues(st, attempts)
    THEN [candidates |-> st.candidates, rng |-> rng]
    ELSE LET fs == gdc_fill_passes([st |-> st, attempts |-> attempts, rng |-> rng],
                                   Stride, dye_count, max_volume, step)
         IN  gdc_fill(fs.st, fs.attempts, fs.rng, dye_count, max_volume, step)

\* The generator with seen starting empty, whatever existing_experiments holds.
generate_diverse_candidates_seen_empty(dye_count, samples, existing_experiments, max_volume, step, rng) ==
    LET st0 == [candidates |-> <<>>, seen |-> {},
                n_to_generate |-> samples, returned |-> FALSE]
        st1 == gdc_offer_all(st0, single_candidates(dye_count, max_volume), FALSE)
        st2 == IF dye_count >= 2
               THEN gdc_offer_all(st1, pair_candidates(dye_count, max_volume, step), TRUE)
               ELSE st1
        st3 == IF dye_count >= 3
               THEN gdc_offer_all(st2, triple_candidates(dye_count, max_volume), TRUE)
               ELSE st2
    IN  gdc_fill(st3, 0, rng, dye_count, max_volume, step)

generate_diverse_candidates(dye_count, samples, existing_experiments, max_volume, step, rng) ==
    LET st0 == [candidates |-> <<>>, seen |-> Range(existing_experiments),
                n_to_generate |-> samples, returned |-> FALSE]
        st1 == gdc_offer_all(st0, single_candidates(dye_count, max_volume), FALSE)
        st2 == IF dye_count >= 2
               THEN gdc_offer_all(st1, pair_candidates(dye_count, max_volume, step), TRUE)
               ELSE st1
        st3 == IF dye_count >= 3
               THEN gdc_offer_all(st2, triple_candidates(dye_count, max_volume), TRUE)
               ELSE st2
    IN  gdc_fill(st3, 0, rng, dye_count, max_volume, step)

\* ------------------------------------------------------------ generate_diverse_covering_combinations

\* One pass of the first loop with the mixture random_combination returned:
\* the mixture is taken if it has two dyes or more, brings in a dye not used
\* yet (or is the first) and is not there already; broke is the "break" once
\* every dye is used.
cover_prefer_pass(st, vols, dye_count) ==
    LET nonzero_indices == NonZero(vols)
        st1 == [st EXCEPT !.attempts = @ + 1]
    IN  IF Cardinality(nonzero_indices) < 2 THEN st1
        ELSE LET new_dyes == nonzero_indices \ st.used_dyes
                 st2 == IF (new_dyes # {} \/ Len(st.combinations) = 0)
                           /\ vols \notin Range(st.combinations)
                        THEN [st1 EXCEPT !.combinations = Append(@, vols),
                                         !.used_dyes = @ \cup nonzero_indices]
                        ELSE st1
             IN  [st2 EXCEPT !.broke = (Cardinality(st2.used_dyes) = dye_count)]

\* while len(combinations) < n_combinations and attempts < max_attempts
cover_prefer_continues(st, n) ==
    ~st.broke /\ Len(st.combinations) < n /\ st.attempts < max_attempts

\* Up to k passes of the first loop.
RECURSIVE cover_prefer_passes(_, _, _, _, _, _)
cover_prefer_passes(st, k, dye_count, n, max_volume, step) ==
    IF k = 0 \/ ~cover_prefer_continues(st, n) THEN st
    ELSE LET rc == random_combination(dye_count, step, max_volume, st.rng)
         IN  cover_prefer_passes(
                 cover_prefer_pass([st EXCEPT !.rng = rc.rng], rc.vols, dye_count),
                 k - 1, dye_count, n, max_volume, step)

\* The first loop, evaluated Stride passes at a time.
RECURSIVE cover_prefer(_, _, _, _, _)
cover_prefer(st, dye_count, n, max_volume, step) ==
    IF ~cover_prefer_continues(st, n) THEN st
    ELSE cover_prefer(cover_prefer_passes(st, Stride, dye_count, n, max_volume, step),
                      dye_count, n, max_volume, step)

\* One pass of the second loop taking single-dye mixtures as well.
cover_fill_pass_any(combinations, vols) ==
    IF vols \in Range(combinations) THEN combinations
    ELSE Append(combinations, vols)

\* One pass of the second loop: any new mixture of two dyes or more is taken.
cover_fill_pass(combinations, vols) ==
    IF Cardinality(NonZero(vols)) < 2 \/ vols \in Range(combinations)
    THEN combinations
    ELSE Append(combinations, vols)

\* The second loop, which has no attempt cap in the source.
RECURSIVE cover_fill(_, _, _, _, _, _, _)
cover_fill(combinations, rng, draws, dye_count, n, max_volume, step) ==
    IF ~(Len(combinations) < n)
    THEN [combinations |-> combinations, rng |-> rng, returned |-> TRUE]
    ELSE IF draws >= MaxRetry
    THEN [combinations |-> combinations, rng |-> rng, returned |-> FALSE]
    ELSE LET rc == random_combination(dye_count, step, max_volume, rng)
         IN  cover_fill(cover_fill_pass(combinations, rc.vols), rc.rng, draws + 1,
                        dye_count, n, max_volume, step)

cover_start(rng) ==
    [combinations |-> <<>>, used_dyes |-> {}, attempts |-> 0, broke |-> FALSE,
     rng |-> rng]

generate_diverse_covering_combinations(dye_count, n, max_volume, step, rng) ==
    LET st == cover_prefer(cover_start(rng), dye_count, n, max_volume, step)
    IN  cover_fill(st.combinations, st.rng, 0, dye_count, n, max_volume, step)


\* ------------------------------------------------------------ random_forest_optimize_next_experiment
\*
\* The result tells the way the call ended (via): by one of the three
\* returns of random_combination ("fallback"), from the empty-pool loop
\* ("retry"), by the acquisition scores ("scoring") or by an exception.

\* What the regressor does in a session.  Its fit and its predictions are
\* not computed here: it raises in fit, raises in predict, or yields
\* acquisition scores that rank the pool (highest first or highest last).
sklearn_behaviours == {"ranks_first", "ranks_last", "fit_raises", "predict_raises"}

\* A forest whose predictions are the same for every candidate (as that of a
\* history of one experiment, whose trees all predict its score, with no
\* variance between them and no proximity bonus below three experiments).
\* The protocol run is checked with sklearn_behaviours, the direct calls of
\* the optimizer with this one as well.
sklearn_equal_scores == {"scores_equal"}

acquisition(sk, n) ==
    [i \in 1..n |-> IF sk = "ranks_first" THEN n - i
                    ELSE IF sk = "scores_equal" THEN 0
                    ELSE i]

\* The positions that hold the largest score.  np.argsort uses a sort that
\* is not stable: which of these positions ends last in its result, and so
\* first in sorted_indices, is up to the numpy build.
maximal_indices(acq) ==
    {i \in DOMAIN acq : \A j \in DOMAIN acq : acq[j] <= acq[i]}

\* np.argsort(acquisition)[::-1][0]: the position of the largest score; of
\* equal largest scores, the last (the order numpy's insertion sort, used
\* up to 16 elements, leaves them in).
sorted_indices_0(acq) ==
    CHOOSE i \in DOMAIN acq :
        \A j \in DOMAIN acq : acq[j] < acq[i] \/ (acq[j] = acq[i] /\ j <= i)

exploration_weight_of_ten(history_size, max_iterations) ==
    IF 10 * history_size < 3 * 10 THEN 20
    ELSE IF 10 * history_size < 7 * 10 THEN 10
    ELSE 5

\* ratio = len(X_train) / max_iterations;
\* exploration_weight = 2.0 if ratio < 0.3 else 1.0 if ratio < 0.7 else 0.5,
\* in tenths.  The division is correctly rounded, so the float ratio is below
\* the float 0.3 (0.7) exactly when the fraction is below 3/10 (7/10).
exploration_weight(history_size, max_iterations) ==
    IF 10 * history_size < 3 * max_iterations THEN 20
    ELSE IF 10 * history_size < 7 * max_iterations THEN 10
    ELSE 5

\* "while True": random mixtures until one is not in X_train.
RECURSIVE retry_until_new(_, _, _, _, _, _)
retry_until_new(X_train, rng, draws, dye_count, max_volume, step) ==
    IF draws >= MaxRetry
    THEN [volumes |-> <<>>, rng |-> rng, returned |-> FALSE, raised |-> FALSE,
          via |-> "retry"]
    ELSE LET rc == random_combination(dye_count, step, max_volume, rng)
         IN  IF rc.vols \notin Range(X_train)
             THEN [volumes |-> rc.vols, rng |-> rc.rng, returned |-> TRUE,
                   raised |-> FALSE, via |-> "retry"]
             ELSE retry_until_new(X_train, rc.rng, draws + 1, dye_count, max_volume, step)

random_fallback(dye_count, max_volume, step, rng) ==
    LET rc == random_combination(dye_count, step, max_volume, rng)
    IN  [volumes |-> rc.vols, rng |-> rc.rng, returned |-> TRUE, raised |-> FALSE,
         via |-> "fallback"]

\* An exception that leaves the function.
propagates(rng) ==
    [volumes |-> <<>>, rng |-> rng, returned |-> TRUE, raised |-> TRUE, via |-> "exception"]

\* scaler.fit_transform(X_train) raises on rows of different lengths.
fit_transform_raises(X_train) ==
    \E i \in DOMAIN X_train : Len(X_train[i]) # Len(X_train[1])

\* scaler.transform(X_candidates) raises when the candidates (rows of
\* dye_count volumes) do not have the number of features the scaler was
\* fitted on.
transform_raises(X_train, dye_count) == Len(X_train[1]) # dye_count

\* Lines 151-183: what the optimizer does with the pool of line 150.
optimize_from_pool(X_train, pool, dye_count, max_volume, step, max_iterations, sk) ==
    IF pool.candidates = <<>>
    THEN retry_until_new(X_train, pool.rng, 0, dye_count, max_volume, step)
    ELSE IF transform_raises(X_train, dye_count)
    THEN propagates(pool.rng)
    ELSE IF sk = "predict_raises"
    THEN random_fallback(dye_count, max_volume, step, pool.rng)
    ELSE [volumes  |-> pool.candidates[
                           sorted_indices_0(acquisition(sk, Len(pool.candidates)))],
          rng      |-> pool.rng,
          returned |-> TRUE,
          raised   |-> FALSE,
          via      |-> "scoring",
          exploration_weight |-> exploration_weight(Len(X_train), max_iterations),
          \* the pool and its scores, for the callers that look at them
          candidates  |-> pool.candidates,
          acquisition |-> acquisition(sk, Len(pool.candidates))]

\* (The pool is bound as the element of a one-element set so that it is
\* generated once.)
random_forest_optimize_next_experiment(X_train, Y_train, target_rgb, dye_count, max_volume, step, max_iterations, rng, sk) ==
    IF Len(X_train) = 0 THEN random_fallback(dye_count, max_volume, step, rng)
    ELSE IF fit_transform_raises(X_train) THEN propagates(rng)
    ELSE IF sk = "fit_raises" THEN random_fallback(dye_count, max_volume, step, rng)
    ELSE CHOOSE res \in {optimize_from_pool(X_train, pool, dye_count, max_volume, step,
                                            max_iterations, sk) :
                            pool \in {generate_diverse_candidates(
                                         dye_count, n_samples, X_train, max_volume,
                                         step, rng)}} : TRUE

\* ------------------------------------------------------------ the protocol run

VARIABLES
    pc,               \* where run() is: "testing", "loop", "done", "raised", "hung"
    plate,            \* plate.wells[...].volume, by <<row, column>>
    well_max_volume,  \* plate.wells[...].max_volume
    initialized,      \* hasattr(active_learning, "initialized")
    current_row,      \* active_learning.current_row
    row_data,         \* active_learning.row_data
    random_state,     \* the state of the random module
    sklearn,          \* what the regressor does in this session
    calls,            \* number of calls of active_learning so far
    last,             \* what the last call of active_learning did
    well_uses,        \* per well, the experiments that dispensed into it
    probe,            \* a direct call of a function of color_learning.py
    remote            \* args.json on the robot and the listener loop reading it

vars == <<pc, plate, well_max_volume, initialized, current_row, row_data,
          random_state, sklearn, calls, last, well_uses, probe, remote>>

\* The capacity the labware definition reports: 360 for the plate run() names
\* (corning_96_wellplate_360ul_flat), 2000 for a deep-well plate.
well_max_volumes == {360, 2000}

\* Seeds of the random module.
seeds == {[tape |-> <<>>, state |-> 1], [tape |-> <<>>, state |-> 2]}

\* What the camera can report: the target in column 1, and in an experiment
\* well a colour at distance exactly 30 or at distance 31 from it.
TargetColors == {<<120, 80, 40>>}
CameraColors == {<<150, 80, 40>>, <<151, 80, 40>>}

Wells == {<<r, c>> : r \in Range(rows_to_process), c \in 1..PlateColumns}

NoRow == "-"

\* No direct call: the protocol run makes its calls itself.
NoProbe == [fn |-> "none", dye_count |-> 0, step |-> 0, max_volume |-> 0, n |-> 0,
            existing |-> <<>>, outcomes |-> {}, rng |-> [tape |-> <<>>, state |-> 0],
            color |-> <<>>, target_rgb |-> <<>>, tolerance |-> 0,
            done |-> FALSE, result |-> <<>>]
\* No robot-side listener: the protocol run is the local one.
NoRemote == [pos |-> "none"]
NoCall == [kind |-> "none", row |-> NoRow, iteration |-> 0, column |-> 0,
           volumes |-> <<>>, add_color_calls |-> <<>>, measured |-> <<>>,
           returned |-> FALSE,
           \* where the mixture came from ("covering" or "optimizer"), and the
           \* length of the history the optimizer was called with
           source |-> "none", history |-> 0,
           \* the way the optimizer's call ended, and the exploration weight
           \* (in tenths) of a call that scored its pool
           via |-> "none", exploration_weight |-> 0]

\* add_color: the capacity check, then the tracked volume grows.
add_color(pl, plate_well, volume, cap) ==
    IF volume + pl[plate_well] > cap
    THEN [plate |-> pl, raised |-> TRUE]
    ELSE [plate |-> [pl EXCEPT ![plate_well] = @ + volume], raised |-> FALSE]

\* A sequence of add_color calls <<well, volume>>; the first that raises ends
\* it.  done lists the calls made, each with the volume the well held.
RECURSIVE add_colors(_, _, _)
add_colors(acc, todo, cap) ==
    IF todo = <<>> \/ acc.raised THEN acc
    ELSE LET c == Head(todo)
             r == add_color(acc.plate, c[1], c[2], cap)
         IN  add_colors([plate  |-> r.plate,
                         raised |-> r.raised,
                         done   |-> Append(acc.done,
                                           [well |-> c[1], before |-> acc.plate[c[1]],
                                            volume |-> c[2]])],
                        Tail(todo), cap)

\* The TESTING block
testing_calls == << <<<<"A", 1>>, 100>>, <<<<"A", 1>>, 200>>, <<<<"A", 2>>, 300>> >>

testing ==
    /\ pc = "testing"
    /\ LET r == add_colors([plate |-> plate, raised |-> FALSE, done |-> <<>>],
                           testing_calls, well_max_volume)
       IN  /\ plate' = r.plate
           /\ pc' = IF r.raised THEN "raised" ELSE "loop"
    /\ UNCHANGED <<well_max_volume, initialized, current_row, row_data,
                   random_state, sklearn, calls, last, well_uses, probe, remote>>


\* -- active_learning: the first call's initialisation

new_row_data(target_color, covering_combos) ==
    [target_color          |-> target_color,
     current_iteration     |-> 0,
     X_train               |-> <<>>,
     Y_train               |-> <<>>,
     best_match            |-> <<>>,        \* None
     best_distance         |-> Infinity,    \* squared
     completed             |-> FALSE,
     covering_combinations |-> covering_combos]

\* rows_to_process.index(row), 0-based as in the source
current_idx(row) ==
    (CHOOSE i \in 1..Len(rows_to_process) : rows_to_process[i] = row) - 1

\* The covering combinations of the rows, generated row after row.
RECURSIVE covering_for_rows(_, _, _)
covering_for_rows(i, acc, rng) ==
    IF i > Len(rows_to_process) THEN [covering |-> acc, rng |-> rng, returned |-> TRUE]
    ELSE LET cc == generate_diverse_covering_combinations(
                       Len(color_slots), n_combinations, MAX_WELL_VOLUME, MIN_STEP, rng)
         IN  IF ~cc.returned THEN [covering |-> acc, rng |-> cc.rng, returned |-> FALSE]
             ELSE covering_for_rows(i + 1, Append(acc, cc.combinations), cc.rng)

\* targets[i] is color_data[row_idx][0] of the i-th row.
initialize(targets, rng) ==
    LET cv == covering_for_rows(1, <<>>, rng)
    IN  [current_row |-> rows_to_process[1],
         row_data    |-> IF cv.returned
                         THEN [r \in Range(rows_to_process) |->
                                  new_row_data(targets[current_idx(r) + 1],
                                               cv.covering[current_idx(r) + 1])]
                         ELSE <<>>,
         rng         |-> cv.rng,
         returned    |-> cv.returned]

\* -- active_learning: one step

has_next_row_off_by_one(row) == current_idx(row) + 2 < Len(rows_to_process)

\* current_idx + 1 < len(rows_to_process)
has_next_row(row) == current_idx(row) + 1 < Len(rows_to_process)

\* rows_to_process[current_idx + 1]
next_row(row) == rows_to_process[current_idx(row) + 2]

\* while row_data['completed'] and row in rows_to_process: ...
RECURSIVE skip_completed(_, _)
skip_completed(row, rd) ==
    IF rd[row].completed /\ row \in Range(rows_to_process)
    THEN IF has_next_row(row) THEN skip_completed(next_row(row), rd)
         ELSE [row |-> row, all_done |-> TRUE]
    ELSE [row |-> row, all_done |-> FALSE]

budget_exhausted_early(iteration) == iteration >= MAX_ITERATIONS - 1

\* row_data['current_iteration'] >= MAX_ITERATIONS
budget_exhausted(iteration) == iteration >= MAX_ITERATIONS

well_column_from_1(iteration) == iteration + 1

\* column = row_data['current_iteration'] + 2
well_column(iteration) == iteration + 2

improves_reversed(distance, best_distance) == distance > best_distance

improves_or_equals(distance, best_distance) == distance <= best_distance

\* distance < row_data['best_distance']
improves(distance, best_distance) == distance < best_distance

mark_completed_forgotten(d) == d

mark_completed_and_counted(d) ==
    [d EXCEPT !.completed = TRUE, !.current_iteration = @ + 1]

\* row_data['completed'] = True
mark_completed(d) == [d EXCEPT !.completed = TRUE]

\* row_data['current_iteration'] += 1
next_iteration(d) == [d EXCEPT !.current_iteration = @ + 1]

\* The rows' lists being one shared object: what the row writes to its
\* X_train and Y_train shows in every row.
store_shared_lists(rd, row, d) ==
    [r \in DOMAIN rd |->
        IF r = row THEN d
        ELSE [rd[r] EXCEPT !.X_train = d.X_train, !.Y_train = d.Y_train]]

\* The step's writes landing in every row.
store_every_row(rd, row, d) == [r \in DOMAIN rd |-> d]

\* row_data is active_learning.row_data[row]: the step's writes go to that row
store(rd, row, d) == [rd EXCEPT ![row] = d]

\* X_train / Y_train append and the best-match update
record_experiment(d, volumes, measured_color) ==
    LET distance == SqDistance(measured_color, d.target_color)
        d1 == [d EXCEPT !.X_train = Append(@, volumes),
                        !.Y_train = Append(@, measured_color)]
    IN  IF improves(distance, d.best_distance)
        THEN [d1 EXCEPT !.best_distance = distance, !.best_match = volumes]
        ELSE d1

\* for i, volume in enumerate(volumes): if volume > 0: add_color(...)
dispense_calls(volumes, well) ==
    LET positive == SelectSeq(volumes, LAMBDA v : v > 0)
    IN  [k \in 1..Len(positive) |-> <<well, positive[k]>>]

\* The last row's completion sending the cursor back to the first row
\* instead of returning True.
advance_wraps(res, row) ==
    [res EXCEPT !.current_row = IF has_next_row(row) THEN next_row(row)
                                ELSE rows_to_process[1]]

\* if current_idx + 1 < len(...): current_row = next; else: return True
advance(res, row) ==
    IF has_next_row(row) THEN [res EXCEPT !.current_row = next_row(row)]
    ELSE [res EXCEPT !.pc = "done", !.last.returned = TRUE]

uses_covering_but_last(d) == d.current_iteration + 1 < Len(d.covering_combinations)

\* row_data['current_iteration'] < len(row_data['covering_combinations'])
uses_covering(d) == d.current_iteration < Len(d.covering_combinations)

\* Lines 272-283: the next covering mixture, or the optimizer's mixture.
choose_volumes(d, rng, sk) ==
    IF uses_covering(d)
    THEN [volumes  |-> d.covering_combinations[d.current_iteration + 1],
          rng      |-> rng,
          returned |-> TRUE,
          raised   |-> FALSE,
          via      |-> "covering"]
    ELSE random_forest_optimize_next_experiment(
             d.X_train, d.Y_train, d.target_color, Len(color_slots),
             MAX_WELL_VOLUME, MIN_STEP, MAX_ITERATIONS, rng, sk)

\* Lines 268-322 with the mixture chosen: dispense, measure, record.
experiment_with(base0, rd, row, cap, measured_color, chosen) ==
    LET d      == rd[row]
        column == well_column(d.current_iteration)
        well   == <<row, column>>
        base   == [base0 EXCEPT
                      !.last.source = IF uses_covering(d) THEN "covering" ELSE "optimizer",
                      !.last.history = IF uses_covering(d) THEN 0 ELSE Len(d.X_train),
                      !.last.via = chosen.via,
                      !.last.exploration_weight =
                          IF chosen.via = "scoring" THEN chosen.exploration_weight ELSE 0]
    IN  IF ~chosen.returned
        THEN [base EXCEPT !.pc = "hung", !.rng = chosen.rng,
                          !.last.kind = "hung", !.last.column = column]
        ELSE IF chosen.raised
        THEN [base EXCEPT !.pc = "raised", !.rng = chosen.rng,
                          !.last.kind = "failed", !.last.column = column]
        ELSE
        LET todo  == dispense_calls(chosen.volumes, well)
            \* plate.wells[plate_well] of a well the plate does not have
            disp  == IF todo # <<>> /\ well \notin Wells
                     THEN [plate |-> base.plate, raised |-> TRUE, done |-> <<>>]
                     ELSE add_colors([plate |-> base.plate, raised |-> FALSE,
                                      done |-> <<>>], todo, cap)
            poured == Len(disp.done) - (IF disp.raised THEN 1 ELSE 0) > 0
            res0  == [base EXCEPT
                        !.plate = disp.plate,
                        !.rng = chosen.rng,
                        !.well_uses = IF poured THEN [@ EXCEPT ![well] = @ + 1] ELSE @,
                        !.last.kind = "experiment",
                        !.last.column = column,
                        !.last.volumes = chosen.volumes,
                        !.last.add_color_calls = disp.done,
                        !.last.measured = measured_color]
        IN  IF disp.raised
            THEN [res0 EXCEPT !.pc = "raised", !.last.kind = "raised",
                              !.last.measured = <<>>]
            ELSE
            LET d1 == record_experiment(d, chosen.volumes, measured_color)
            IN  IF within_tolerance(measured_color, d.target_color, TOLERANCE)
                THEN advance([res0 EXCEPT !.row_data = store(rd, row, mark_completed(d1))],
                             row)
                ELSE [res0 EXCEPT !.row_data = store(rd, row, next_iteration(d1))]

\* The experiment of a step: choose the mixture, dispense, measure, record.
\* (The mixture is bound as the element of a one-element set so that it is
\* chosen once.)
experiment(base0, rd, row, sk, cap, measured_color) ==
    CHOOSE res \in {experiment_with(base0, rd, row, cap, measured_color, chosen) :
                       chosen \in {choose_volumes(rd[row], base0.rng, sk)}} : TRUE

step(rd, cur, rng, pl, uses, cap, sk, measured_color) ==
    LET sc   == skip_completed(cur, rd)
        row  == sc.row
        base == [pc |-> "loop", plate |-> pl, row_data |-> rd, current_row |-> row,
                 rng |-> rng, well_uses |-> uses,
                 last |-> [NoCall EXCEPT !.row = row,
                                         !.iteration = rd[row].current_iteration]]
    IN  IF sc.all_done
        THEN [base EXCEPT !.pc = "done", !.last.kind = "all_done", !.last.returned = TRUE]
        ELSE IF budget_exhausted(rd[row].current_iteration)
        THEN advance([base EXCEPT !.row_data = store(rd, row, mark_completed(rd[row])),
                                  !.last.kind = "exhausted"],
                     row)
        ELSE experiment(base, rd, row, sk, cap, measured_color)

\* One call of active_learning() by the main loop.  targets is what the
\* camera shows in column 1 at the first call, measured_color what it shows
\* in the experiment's well.
active_learning(targets, measured_color) ==
    /\ pc = "loop"
    /\ \E init \in {IF initialized
                    THEN [current_row |-> current_row, row_data |-> row_data,
                          rng |-> random_state, returned |-> TRUE]
                    ELSE initialize(targets, random_state)} :
       \E res \in {IF init.returned
                   THEN step(init.row_data, init.current_row, init.rng, plate,
                             well_uses, well_max_volume, sklearn, measured_color)
                   ELSE [pc |-> "hung", plate |-> plate, row_data |-> init.row_data,
                         current_row |-> init.current_row, rng |-> init.rng,
                         well_uses |-> well_uses,
                         last |-> [NoCall EXCEPT !.kind = "hung"]]} :
           /\ pc' = res.pc
           /\ plate' = res.plate
           /\ row_data' = res.row_data
           /\ current_row' = res.current_row
           /\ random_state' = res.rng
           /\ well_uses' = res.well_uses
           /\ last' = res.last
    /\ initialized' = TRUE
    /\ calls' = calls + 1
    /\ UNCHANGED <<well_max_volume, sklearn, probe, remote>>

Init ==
    /\ pc = "testing"
    /\ plate = [w \in Wells |-> 0]
    /\ well_max_volume \in well_max_volumes
    /\ initialized = FALSE
    /\ current_row = NoRow
    /\ row_data = <<>>
    /\ random_state \in seeds
    /\ sklearn \in sklearn_behaviours
    /\ calls = 0
    /\ last = NoCall
    /\ well_uses = [w \in Wells |-> 0]
    /\ remote = NoRemote
    /\ probe = NoProbe

\* while not active_learning(): ...
main_loop ==
    \E targets \in [1..Len(rows_to_process) -> TargetColors] :
        \E measured_color \in CameraColors :
            active_learning(targets, measured_color)

Next == testing \/ main_loop

Spec == Init /\ [][Next]_vars

\* ------------------------------------------------------------ direct calls
\*
\* The functions of color_learning.py called on their own, with arguments
\* from small ranges and the random module's first draws from every tape
\* over RawDraws.

MaxDyeCount == 3
MaxStep == 2
MaxVolume == 4
TapeLen == 2
MaxSamples == 6
MaxCombinations == 2
MaxChannel == 4
MaxTolerance == 7

\* Raw draws that between them take both branches of "random.random() < 0.7"
\* and every value of a randint over up to four values.
RawDraws == {0, 1, 2, 7}

Tapes == {[tape |-> t, state |-> 1] : t \in [1..TapeLen -> RawDraws]}

random_combination_inputs ==
    {[NoProbe EXCEPT !.fn = "random_combination", !.dye_count = d, !.step = st,
                     !.max_volume = mv, !.rng = r] :
        d \in 1..MaxDyeCount, st \in 1..MaxStep, mv \in 0..MaxVolume, r \in Tapes}

call_random_combination ==
    /\ probe.fn = "random_combination"
    /\ ~probe.done
    /\ probe' = [probe EXCEPT
                    !.done = TRUE,
                    !.result = random_combination(probe.dye_count, probe.step,
                                                  probe.max_volume, probe.rng)]
    /\ UNCHANGED <<pc, plate, well_max_volume, initialized, current_row, row_data,
                   random_state, sklearn, calls, last, well_uses, remote>>

\* existing_experiments: none, or a single-dye mixture and a mixture
\* random_combination can return
existing_choices(d, st, mv) ==
    {<<>>,
     <<single_candidate(1, d, mv),
       random_combination(d, st, mv, [tape |-> <<>>, state |-> 1]).vols>>}

\* n_samples: none, fewer than the single-dye candidates, more than the
\* structured candidates of two dyes
sample_counts == {0, 2, MaxSamples}

generate_diverse_candidates_inputs ==
    {[NoProbe EXCEPT !.fn = "generate_diverse_candidates", !.dye_count = p[1],
                     !.step = p[2], !.max_volume = p[3], !.n = p[4], !.rng = p[5],
                     !.existing = p[6]] :
        p \in {q \in (1..MaxDyeCount) \X (1..MaxStep) \X (0..MaxVolume) \X sample_counts
                      \X Tapes \X UNION {existing_choices(d, st, mv) :
                                            d \in 1..MaxDyeCount, st \in 1..MaxStep,
                                            mv \in 0..MaxVolume} :
                  q[6] \in existing_choices(q[1], q[2], q[3])}}

call_generate_diverse_candidates ==
    /\ probe.fn = "generate_diverse_candidates"
    /\ ~probe.done
    /\ probe' = [probe EXCEPT
                    !.done = TRUE,
                    !.result = generate_diverse_candidates(
                                   probe.dye_count, probe.n, probe.existing,
                                   probe.max_volume, probe.step, probe.rng)]
    /\ UNCHANGED <<pc, plate, well_max_volume, initialized, current_row, row_data,
                   random_state, sklearn, calls, last, well_uses, remote>>

generate_diverse_covering_combinations_inputs ==
    {[NoProbe EXCEPT !.fn = "generate_diverse_covering_combinations",
                     !.dye_count = d, !.step = st, !.max_volume = mv, !.n = k,
                     !.rng = r] :
        d \in 1..MaxDyeCount, st \in 1..MaxStep, mv \in 0..MaxVolume,
        k \in 0..MaxCombinations, r \in seeds}

call_generate_diverse_covering_combinations ==
    /\ probe.fn = "generate_diverse_covering_combinations"
    /\ ~probe.done
    /\ probe' = [probe EXCEPT
                    !.done = TRUE,
                    !.result = generate_diverse_covering_combinations(
                                   probe.dye_count, probe.n, probe.max_volume,
                                   probe.step, probe.rng)]
    /\ UNCHANGED <<pc, plate, well_max_volume, initialized, current_row, row_data,
                   random_state, sklearn, calls, last, well_uses, remote>>

\* X_train: empty, one mixture, or one row that is a dye too long
histories(d, mv) ==
    {<<>>, <<single_candidate(1, d, mv)>>, <<Zeros(d + 1)>>}

random_forest_optimize_next_experiment_inputs ==
    {[NoProbe EXCEPT !.fn = "random_forest_optimize_next_experiment",
                     !.dye_count = p[1], !.step = p[2], !.max_volume = p[3],
                     !.n = MAX_ITERATIONS, !.rng = p[4], !.existing = p[5]] :
        p \in {q \in (1..MaxDyeCount) \X (1..MaxStep) \X (0..MaxVolume) \X seeds
                      \X UNION {histories(d, mv) : d \in 1..MaxDyeCount,
                                                   mv \in 0..MaxVolume} :
                  q[5] \in histories(q[1], q[3])}}

call_random_forest_optimize_next_experiment ==
    /\ probe.fn = "random_forest_optimize_next_experiment"
    /\ ~probe.done
    /\ \E res \in {random_forest_optimize_next_experiment(
                       probe.existing,
                       [i \in DOMAIN probe.existing |-> <<150, 80, 40>>],
                       <<120, 80, 40>>, probe.dye_count, probe.max_volume,
                       probe.step, probe.n, probe.rng, sklearn)} :
          \* of candidates with the same largest score, any may come first
          \E v \in IF res.via = "scoring"
                    THEN {res.candidates[i] : i \in maximal_indices(res.acquisition)}
                    ELSE {res.volumes} :
              probe' = [probe EXCEPT !.done = TRUE,
                                     !.result = [res EXCEPT !.volumes = v]]
    /\ UNCHANGED <<pc, plate, well_max_volume, initialized, current_row, row_data,
                   random_state, sklearn, calls, last, well_uses, remote>>

\* Colours with channels 0..MaxChannel against two targets, and tolerances
\* from a negative one up to beyond the largest distance.
within_tolerance_inputs ==
    {[NoProbe EXCEPT !.fn = "within_tolerance", !.color = c, !.target_rgb = t,
                     !.tolerance = d] :
        c \in [1..3 -> 0..MaxChannel],
        t \in {<<0, 0, 0>>, <<MaxChannel, 0, 1>>},
        d \in (-1)..MaxTolerance}

call_within_tolerance ==
    /\ probe.fn = "within_tolerance"
    /\ ~probe.done
    /\ probe' = [probe EXCEPT
                    !.done = TRUE,
                    !.result = within_tolerance(probe.color, probe.target_rgb,
                                                probe.tolerance)]
    /\ UNCHANGED <<pc, plate, well_max_volume, initialized, current_row, row_data,
                   random_state, sklearn, calls, last, well_uses, remote>>

InitCalls ==
    /\ pc = "direct"
    /\ plate = [w \in Wells |-> 0]
    /\ well_max_volume = 360
    /\ initialized = FALSE
    /\ current_row = NoRow
    /\ row_data = <<>>
    /\ random_state = [tape |-> <<>>, state |-> 1]
    /\ calls = 0
    /\ last = NoCall
    /\ well_uses = [w \in Wells |-> 0]
    /\ remote = NoRemote
    /\ \/ /\ sklearn = "ranks_first"
          /\ probe \in random_combination_inputs
                        \cup generate_diverse_candidates_inputs
                        \cup generate_diverse_covering_combinations_inputs
                        \cup within_tolerance_inputs
       \/ /\ sklearn \in sklearn_behaviours \cup sklearn_equal_scores
          /\ probe \in random_forest_optimize_next_experiment_inputs

NextCalls ==
    \/ call_random_combination
    \/ call_generate_diverse_candidates
    \/ call_generate_diverse_covering_combinations
    \/ call_random_forest_optimize_next_experiment
    \/ call_within_tolerance

SpecCalls == InitCalls /\ [][NextCalls]_vars

\* ------------------------------------------------------------ the covering loops, pass by pass
\*
\* generate_diverse_covering_combinations with random_combination as a
\* choice: every pass of its loops gets one of the mixtures random_combination
\* can return for the call's arguments, and each of them keeps being chosen.

\* Every mixture random_combination can return: its results over all the
\* draws it can make (one for the primary dye, two per dye, one for the
\* lucky dye).
random_combination_outcomes(dye_count, step_size, max_volume) ==
    {random_combination(dye_count, step_size, max_volume, [tape |-> t, state |-> 1]).vols :
        t \in [1..(2 * dye_count + 2) -> RawDraws]}

\* Where the call is: in the first loop, in the second, or returned.
cover_position(st, at, n) ==
    IF at = "prefer" /\ cover_prefer_continues(st, n) THEN "prefer"
    ELSE IF Len(st.combinations) < n THEN "fill"
    ELSE "returned"

covering_loop_inputs ==
    {[NoProbe EXCEPT !.fn = "covering_loop", !.dye_count = d, !.step = st,
                     !.max_volume = mv, !.n = k,
                     !.outcomes = random_combination_outcomes(d, st, mv),
                     !.result = [loop |-> cover_start(NoProbe.rng),
                                 at   |-> cover_position(cover_start(NoProbe.rng), "prefer", k),
                                 tick |-> 0]] :
        d \in 1..2, st \in 1..MaxStep, mv \in 1..MaxVolume, k \in 0..MaxCombinations}

\* One pass of the loop the call is in; tick tells a pass of the second loop
\* that took nothing from no pass at all.
cover_loop_pass(vols) ==
    /\ probe.fn = "covering_loop"
    /\ probe.result.at # "returned"
    /\ vols \in probe.outcomes
    /\ LET st == probe.result.loop
           st1 == IF probe.result.at = "prefer"
                  THEN cover_prefer_pass(st, vols, probe.dye_count)
                  ELSE [st EXCEPT !.combinations = cover_fill_pass(@, vols)]
       IN  probe' = [probe EXCEPT
                       !.result = [loop |-> st1,
                                   at   |-> cover_position(st1, probe.result.at, probe.n),
                                   tick |-> 1 - probe.result.tick]]
    /\ UNCHANGED <<pc, plate, well_max_volume, initialized, current_row, row_data,
                   random_state, sklearn, calls, last, well_uses, remote>>

Mixtures == UNION {[1..d -> 0..MaxVolume] : d \in 1..2}

InitCovering ==
    /\ pc = "direct"
    /\ plate = [w \in Wells |-> 0]
    /\ well_max_volume = 360
    /\ initialized = FALSE
    /\ current_row = NoRow
    /\ row_data = <<>>
    /\ random_state = [tape |-> <<>>, state |-> 1]
    /\ sklearn = "ranks_first"
    /\ calls = 0
    /\ last = NoCall
    /\ well_uses = [w \in Wells |-> 0]
    /\ remote = NoRemote
    /\ probe \in {p \in covering_loop_inputs : p.max_volume >= p.step}

NextCovering == \E vols \in Mixtures : cover_loop_pass(vols)

SpecCovering ==
    /\ InitCovering
    /\ [][NextCovering]_vars
    /\ \A vols \in Mixtures : WF_vars(cover_loop_pass(vols))

\* ------------------------------------------------------------ the robot-side listener
\*
\* The loop of run() in remote_ot2_color_learning_main.py (lines 205-269),
\* which reads args.json, runs the actions it holds and writes the file back,
\* and whoever uploads args.json to the robot.

MaxActions == 2
\* Lines of the listener's output that can wait to be read, and calls of
\* execute_actions_on_remote in a session.
MaxUnread == 2
MaxBatches == 2

\* What an entry of "actions" can be:
\*   "callable"      a [name, args] pair whose name is a callable global
\*   "not_callable"  a pair whose name is a global that is not callable
\*   "not_found"     a pair whose name is not in globals()
\*   "mapping"       a one-key dictionary {name: args}, which
\*                   "action_name, args = action" cannot unpack
Entries == {"callable", "not_callable", "not_found", "mapping"}

ActionLists == UNION {[1..k -> Entries] : k \in 0..MaxActions}

\* args.json: absent, not valid JSON, or an object with or without the keys
\* "is_updated" and "actions".
NoFile(state) ==
    [state |-> state, is_updated |-> "missing", has_actions |-> FALSE, actions |-> <<>>]

Files ==
    {NoFile("absent"), NoFile("invalid")}
    \cup {[state |-> "json", is_updated |-> u, has_actions |-> TRUE, actions |-> a] :
             u \in {"true", "false", "missing"}, a \in ActionLists}
    \cup {[state |-> "json", is_updated |-> u, has_actions |-> FALSE, actions |-> <<>>] :
             u \in {"true", "false", "missing"}}

\* The listener at the top of its loop; read_is_updated, called, wrote and
\* ready tell what the iteration under way (or, at the top of the loop, the
\* one just finished) read and did.
listener_start(file) ==
    [file |-> file, pos |-> "read", data |-> NoFile("absent"),
     read_is_updated |-> "none", called |-> <<>>, wrote |-> FALSE, ready |-> FALSE,
     \* the controller's side (ot2_utils.py), absent unless its position says
     \* otherwise: where OT2Manager is, the number of actions in self.args,
     \* finished_flag, the "Ready" lines of the listener's output not read
     \* yet, whether the SSH connection is closed, and the calls of
     \* execute_actions_on_remote so far
     controller |-> "none", args |-> 0, finished_flag |-> FALSE, stdout |-> 0,
     ssh_closed |-> FALSE, batches |-> 0,
     \* the batch (the number of the call that uploaded it, 0 for none) that
     \* the file holds and the one the listener's data holds; the batches
     \* whose actions the listener ran; the batches it wrote over without
     \* having read them
     file_batch |-> 0, data_batch |-> 0, executed |-> {}, lost |-> {},
     \* the number of actions of each batch uploaded
     uploaded |-> <<>>]

\* for action in actions: ... func(args); called lists the positions of the
\* entries whose function was called, raised tells that an entry could not
\* be unpacked.
RECURSIVE run_actions(_, _, _)
run_actions(actions, i, acc) ==
    IF i > Len(actions) THEN acc
    ELSE IF actions[i] = "mapping" THEN [acc EXCEPT !.raised = TRUE]
    ELSE IF actions[i] = "callable"
    THEN run_actions(actions, i + 1, [acc EXCEPT !.called = Append(@, i)])
    ELSE run_actions(actions, i + 1, acc)

\* Lines 207-229: the file is read; without valid JSON or without the key
\* "is_updated" the loop starts over; with is_updated false it sleeps and
\* goes on.
listener_read ==
    /\ remote.pos = "read"
    /\ remote' = IF remote.file.state # "json" \/ remote.file.is_updated = "missing"
                 THEN [remote EXCEPT
                          !.data = NoFile("absent"),
                          !.read_is_updated = "none",
                          !.called = <<>>, !.wrote = FALSE, !.ready = FALSE,
                          !.data_batch = 0]
                 ELSE [remote EXCEPT
                          !.pos = "actions",
                          !.data = remote.file,
                          !.read_is_updated = remote.file.is_updated,
                          !.called = <<>>, !.wrote = FALSE, !.ready = FALSE,
                          !.data_batch = remote.file_batch]
    /\ UNCHANGED <<pc, plate, well_max_volume, initialized, current_row, row_data,
                   random_state, sklearn, calls, last, well_uses, probe>>

\* Lines 247-258: the actions of the data read are run.
listener_actions ==
    /\ remote.pos = "actions"
    /\ \E res \in {run_actions(remote.data.actions, 1, [called |-> <<>>, raised |-> FALSE])} :
          remote' = [remote EXCEPT !.called = res.called,
                                   !.pos = IF res.raised THEN "raised" ELSE "write",
                                   !.executed = IF remote.data_batch # 0 /\ ~res.raised
                                                THEN @ \cup {remote.data_batch}
                                                ELSE @]
    /\ UNCHANGED <<pc, plate, well_max_volume, initialized, current_row, row_data,
                   random_state, sklearn, calls, last, well_uses, probe>>

\* Lines 260-269: is_updated set to False, "actions" removed, the data
\* written to the file, "Ready" printed.
listener_write ==
    /\ remote.pos = "write"
    /\ remote.stdout < MaxUnread
    /\ remote' = [remote EXCEPT
                     !.file = [remote.data EXCEPT !.is_updated = "false",
                                                  !.has_actions = FALSE,
                                                  !.actions = <<>>],
                     !.wrote = TRUE,
                     !.ready = TRUE,
                     !.stdout = IF remote.controller = "none" THEN 0 ELSE @ + 1,
                     !.file_batch = 0,
                     !.lost = IF remote.file_batch \notin {0, remote.data_batch}
                              THEN @ \cup {remote.file_batch}
                              ELSE @,
                     !.pos = "read"]
    /\ UNCHANGED <<pc, plate, well_max_volume, initialized, current_row, row_data,
                   random_state, sklearn, calls, last, well_uses, probe>>

\* scp.put of ot2_utils.py (or any other writer) replacing the file, at any
\* moment of the listener's loop.
upload_file(file) ==
    /\ remote.pos # "none"
    /\ file.state # "absent"
    /\ remote.file # file
    /\ remote' = [remote EXCEPT !.file = file]
    /\ UNCHANGED <<pc, plate, well_max_volume, initialized, current_row, row_data,
                   random_state, sklearn, calls, last, well_uses, probe>>

InitListener ==
    /\ pc = "remote"
    /\ plate = [w \in Wells |-> 0]
    /\ well_max_volume = 360
    /\ initialized = FALSE
    /\ current_row = NoRow
    /\ row_data = <<>>
    /\ random_state = [tape |-> <<>>, state |-> 1]
    /\ sklearn = "ranks_first"
    /\ calls = 0
    /\ last = NoCall
    /\ well_uses = [w \in Wells |-> 0]
    /\ probe = NoProbe
    /\ remote \in {listener_start(f) : f \in Files}

NextListener ==
    \/ listener_read
    \/ listener_actions
    \/ listener_write
    \/ \E file \in Files : upload_file(file)

SpecListener == InitListener /\ [][NextListener]_vars

\* ------------------------------------------------------------ the controller and the listener
\*
\* OT2Manager (ot2_utils.py) beside the listener.  The loop that reads the
\* listener's output and sets finished_flag (lines 93-110) runs beside the
\* calls of execute_actions_on_remote, as the thread of lines 69-91 does; in
\* the constructor as written it does not return while the listener runs.

\* json.dump(self.args): the actions are the one-key dictionaries that
\* _add_action appended, and is_updated is True once one was appended.
args_file(n) ==
    [state |-> "json", is_updated |-> IF n > 0 THEN "true" ELSE "false",
     has_actions |-> TRUE, actions |-> [i \in 1..n |-> "mapping"]]

\* _add_action: one more action in self.args
add_action ==
    /\ remote.controller = "idle"
    /\ remote.args < MaxActions
    /\ remote' = [remote EXCEPT !.args = @ + 1]
    /\ UNCHANGED <<pc, plate, well_max_volume, initialized, current_row, row_data,
                   random_state, sklearn, calls, last, well_uses, probe>>

\* execute_actions_on_remote, lines 134-138: the file saved locally,
\* finished_flag reset
execute_begin ==
    /\ remote.controller = "idle"
    /\ remote.batches < MaxBatches
    /\ remote' = [remote EXCEPT !.controller = "upload",
                                 !.finished_flag = FALSE,
                                 !.batches = @ + 1]
    /\ UNCHANGED <<pc, plate, well_max_volume, initialized, current_row, row_data,
                   random_state, sklearn, calls, last, well_uses, probe>>

\* _upload_file: scp.put replaces the robot's args.json; over a closed
\* connection it fails and the program exits.
execute_upload ==
    /\ remote.controller = "upload"
    /\ remote' = IF remote.ssh_closed
                 THEN [remote EXCEPT !.controller = "exited"]
                 ELSE [remote EXCEPT !.controller = "wait",
                                     !.file = args_file(remote.args),
                                     !.file_batch = remote.batches,
                                     !.uploaded = Append(@, remote.args)]
    /\ UNCHANGED <<pc, plate, well_max_volume, initialized, current_row, row_data,
                   random_state, sklearn, calls, last, well_uses, probe>>

\* _listen_for_completion ends once finished_flag is set
execute_return ==
    /\ remote.controller = "wait"
    /\ remote.finished_flag
    /\ remote' = [remote EXCEPT !.controller = "idle"]
    /\ UNCHANGED <<pc, plate, well_max_volume, initialized, current_row, row_data,
                   random_state, sklearn, calls, last, well_uses, probe>>

\* A "Ready" line of the listener's output read: finished_flag = True
reader_line ==
    /\ remote.controller # "none"
    /\ ~remote.ssh_closed
    /\ remote.stdout > 0
    /\ remote' = [remote EXCEPT !.stdout = @ - 1, !.finished_flag = TRUE]
    /\ UNCHANGED <<pc, plate, well_max_volume, initialized, current_row, row_data,
                   random_state, sklearn, calls, last, well_uses, probe>>

\* The listener gone and its output read to the end: self.ssh.close()
reader_eof ==
    /\ remote.controller # "none"
    /\ ~remote.ssh_closed
    /\ remote.pos = "raised"
    /\ remote.stdout = 0
    /\ remote' = [remote EXCEPT !.ssh_closed = TRUE]
    /\ UNCHANGED <<pc, plate, well_max_volume, initialized, current_row, row_data,
                   random_state, sklearn, calls, last, well_uses, probe>>

\* OT2Manager.__init__: args.json uploaded with no action and is_updated
\* false, the listener started.
InitRemote ==
    /\ pc = "remote"
    /\ plate = [w \in Wells |-> 0]
    /\ well_max_volume = 360
    /\ initialized = FALSE
    /\ current_row = NoRow
    /\ row_data = <<>>
    /\ random_state = [tape |-> <<>>, state |-> 1]
    /\ sklearn = "ranks_first"
    /\ calls = 0
    /\ last = NoCall
    /\ well_uses = [w \in Wells |-> 0]
    /\ probe = NoProbe
    /\ remote = [listener_start(args_file(0)) EXCEPT !.controller = "idle"]

listener_step == listener_read \/ listener_actions \/ listener_write

NextRemote ==
    \/ listener_step
    \/ add_action
    \/ execute_begin
    \/ execute_upload
    \/ execute_return
    \/ reader_line
    \/ reader_eof

\* The listener keeps running, the output is read, and a call of
\* execute_actions_on_remote goes on; nothing obliges the controller to add
\* actions or to make a call.
SpecRemote ==
    /\ InitRemote
    /\ [][NextRemote]_vars
    /\ WF_vars(listener_step)
    /\ WF_vars(reader_line)
    /\ WF_vars(reader_eof)
    /\ WF_vars(execute_upload)
    /\ WF_vars(execute_return)


\* ------------------------------------------------------------ properties

Rows == DOMAIN row_data

\* The colours measured so far for row r that are within TOLERANCE of its target.
Matches(r) ==
    {i \in DOMAIN row_data[r].Y_train :
        SqDistance(row_data[r].Y_train[i], row_data[r].target_color)
            <= TOLERANCE * TOLERANCE}

\* Row r is completed and the colour of its last experiment is within tolerance.
Matched(r) ==
    /\ row_data[r].completed
    /\ Len(row_data[r].Y_train) \in Matches(r)

\* C1: every target's iteration counter and the length of its history are at
\* most MAX_ITERATIONS, and a completed target none of whose measurements
\* was within tolerance has its counter at exactly MAX_ITERATIONS.
C1_IterationCap ==
    \A r \in Rows :
        /\ row_data[r].current_iteration <= MAX_ITERATIONS
        /\ Len(row_data[r].X_train) <= MAX_ITERATIONS
        /\ Len(row_data[r].Y_train) <= MAX_ITERATIONS
        /\ (row_data[r].completed /\ Matches(r) = {})
              => row_data[r].current_iteration = MAX_ITERATIONS

C1_Witness ==
    \E r \in Rows :
        /\ row_data[r].completed
        /\ Matches(r) = {}
        /\ row_data[r].current_iteration = MAX_ITERATIONS
        /\ Len(row_data[r].X_train) = MAX_ITERATIONS

\* C2: a completed target stays completed, and no later call changes its
\* history, its iteration counter, its best match or its best distance.
C2_CompletedIsFinal ==
    [][\A r \in Rows :
          row_data[r].completed =>
              /\ row_data'[r].completed
              /\ row_data'[r].X_train = row_data[r].X_train
              /\ row_data'[r].Y_train = row_data[r].Y_train
              /\ row_data'[r].current_iteration = row_data[r].current_iteration
              /\ row_data'[r].best_match = row_data[r].best_match
              /\ row_data'[r].best_distance = row_data[r].best_distance]_vars

\* a call ran an experiment for one row while another row was completed
C2_Witness ==
    /\ last.kind = "experiment"
    /\ \E r \in Rows : r # last.row /\ row_data[r].completed /\ row_data[r].X_train # <<>>

\* C3: a call whose measurement is within tolerance leaves the target
\* completed with exactly (counter + 1) experiments in its history (so at
\* most len(covering_combinations) of them when a covering mixture matched),
\* and the wells of a completed target that experiments dispensed into are,
\* in every later state, exactly those of its history.
C3_MatchCompletesAtOnce ==
    /\ (/\ last.kind = "experiment"
        /\ SqDistance(last.measured, row_data[last.row].target_color)
              <= TOLERANCE * TOLERANCE)
         => /\ row_data[last.row].completed
            /\ Len(row_data[last.row].X_train) = last.iteration + 1
            /\ row_data[last.row].current_iteration = last.iteration
            /\ (last.iteration < Len(row_data[last.row].covering_combinations)
                  => Len(row_data[last.row].X_train)
                         <= Len(row_data[last.row].covering_combinations))
    /\ \A r \in Rows :
          row_data[r].completed =>
              \A c \in 1..PlateColumns :
                  well_uses[<<r, c>>] =
                      IF 2 <= c /\ c <= Len(row_data[r].X_train) + 1 THEN 1 ELSE 0

\* a measurement within tolerance in the surrogate phase, after an earlier
\* target had matched already
C3_Witness ==
    /\ last.kind = "experiment"
    /\ SqDistance(last.measured, row_data[last.row].target_color) <= TOLERANCE * TOLERANCE
    /\ last.iteration >= Len(row_data[last.row].covering_combinations)
    /\ \E r \in Rows : r # last.row /\ Matched(r)

\* C4: the main loop makes at most number_of_targets * (MAX_ITERATIONS + 1)
\* calls of active_learning: after that many calls it is not running any
\* more, and unless a call of add_color raised it ended with a call that
\* returned True, no call being caught in a retry loop.
C4_DriverTerminates ==
    /\ calls <= Len(rows_to_process) * (MAX_ITERATIONS + 1)
    /\ calls = Len(rows_to_process) * (MAX_ITERATIONS + 1) => pc \in {"done", "raised"}
    /\ pc \in {"testing", "loop", "done", "raised"}
    /\ pc = "done" => last.returned

\* the longest run: every target used its whole budget
C4_Witness ==
    /\ pc = "done"
    /\ calls = Len(rows_to_process) * (MAX_ITERATIONS + 1)

\* C5: active_learning returns True only when every target is completed.
C5_TrueMeansAllCompleted ==
    (pc = "done" \/ last.returned) =>
        \A r \in Range(rows_to_process) : r \in Rows /\ row_data[r].completed

C5_Witness ==
    /\ pc = "done"
    /\ last.returned
    /\ \E r \in Rows : Matched(r)
    /\ \E r \in Rows : row_data[r].completed /\ ~Matched(r)

\* C6: every target before the cursor is completed; and the cursor changes
\* only in a call that leaves the target it pointed to completed, and then
\* to a later row.
C6_CursorInvariant ==
    initialized =>
        \A r \in Rows : current_idx(r) < current_idx(current_row) => row_data[r].completed

C6_CursorMoves ==
    (initialized /\ current_row' # current_row) =>
        /\ row_data'[current_row].completed
        /\ current_idx(current_row') > current_idx(current_row)

C6_Cursor == []C6_CursorInvariant /\ [][C6_CursorMoves]_vars

\* the cursor moved on from an exhausted first target
C6_Witness ==
    /\ initialized
    /\ current_row = rows_to_process[2]
    /\ row_data[rows_to_process[1]].completed
    /\ ~Matched(rows_to_process[1])

\* C7: a target completed by a measurement within tolerance has the mixture
\* of that last experiment as its best match, at a best distance of at most
\* TOLERANCE.
C7_BestIsTheMatch ==
    \A r \in Rows :
        Matched(r) =>
            /\ row_data[r].best_match = row_data[r].X_train[Len(row_data[r].X_train)]
            /\ row_data[r].best_distance <= TOLERANCE * TOLERANCE

\* matched after earlier experiments that missed
C7_Witness ==
    \E r \in Rows : Matched(r) /\ Len(row_data[r].X_train) >= 2

\* C8: every mixture handed to add_color, and every mixture waiting in a
\* target's covering combinations, has a total volume of at most
\* MAX_WELL_VOLUME.
C8_MixtureWithinVolume ==
    /\ last.kind \in {"experiment", "raised"} => SumSeq(last.volumes) <= MAX_WELL_VOLUME
    /\ \A r \in Rows :
          /\ \A i \in DOMAIN row_data[r].X_train :
                SumSeq(row_data[r].X_train[i]) <= MAX_WELL_VOLUME
          /\ \A i \in DOMAIN row_data[r].covering_combinations :
                SumSeq(row_data[r].covering_combinations[i]) <= MAX_WELL_VOLUME

\* histories that hold covering mixtures, mixtures the optimizer selected
\* from its pool and (in another session) its random fallbacks
C8_Witness ==
    /\ last.kind = "experiment"
    /\ last.iteration >= Len(row_data[last.row].covering_combinations) + 2
    /\ sklearn \in {"fit_raises", "predict_raises"}

C10_FreshWell ==
    /\ last.kind \in {"experiment", "raised"} =>
          /\ last.column = last.iteration + 2
          /\ 2 <= last.column /\ last.column <= PlateColumns
          /\ \A i \in DOMAIN last.add_color_calls :
                last.add_color_calls[i].well = <<last.row, last.column>>
    /\ \A w \in Wells :
          /\ well_uses[w] <= 1
          /\ w[2] = 1 => well_uses[w] = 0

\* the last column of a row was used
C10_Witness ==
    /\ last.kind = "experiment"
    /\ last.column = PlateColumns
    /\ well_uses[<<last.row, PlateColumns>>] = 1


\* C11: random_combination returns dye_count volumes, each a non-negative
\* multiple of step, that sum to at most max_volume.
C11_RandomCombinationValid ==
    (probe.fn = "random_combination" /\ probe.done) =>
        /\ Len(probe.result.vols) = probe.dye_count
        /\ \A i \in DOMAIN probe.result.vols :
              /\ probe.result.vols[i] >= 0
              /\ probe.result.vols[i] % probe.step = 0
        /\ SumSeq(probe.result.vols) <= probe.max_volume

\* C12: with max_volume >= 1 the volumes random_combination returns sum to
\* exactly max_volume.
C12_RandomCombinationSum ==
    (probe.fn = "random_combination" /\ probe.done /\ probe.max_volume >= 1) =>
        SumSeq(probe.result.vols) = probe.max_volume


\* C13: every mixture generate_diverse_candidates returns has dye_count
\* volumes, each a non-negative multiple of step, that sum to at most
\* max_volume.
C13_CandidatesValid ==
    (probe.fn = "generate_diverse_candidates" /\ probe.done) =>
        \A k \in DOMAIN probe.result.candidates :
            /\ Len(probe.result.candidates[k]) = probe.dye_count
            /\ \A i \in DOMAIN probe.result.candidates[k] :
                  /\ probe.result.candidates[k][i] >= 0
                  /\ probe.result.candidates[k][i] % probe.step = 0
            /\ SumSeq(probe.result.candidates[k]) <= probe.max_volume

\* C14: generate_diverse_candidates returns no mixture twice and no mixture
\* of existing_experiments.
C14_CandidatesUnique ==
    (probe.fn = "generate_diverse_candidates" /\ probe.done) =>
        /\ \A k, l \in DOMAIN probe.result.candidates :
              probe.result.candidates[k] = probe.result.candidates[l] => k = l
        /\ \A k \in DOMAIN probe.result.candidates :
              probe.result.candidates[k] \notin Range(probe.existing)

\* a result that holds a candidate of the random fill, for a call whose
\* existing experiments the generator would otherwise have produced
C14_Witness ==
    /\ probe.fn = "generate_diverse_candidates" /\ probe.done
    /\ probe.existing # <<>>
    /\ Len(probe.result.candidates) >= 3
    /\ \E k \in DOMAIN probe.result.candidates :
          probe.result.candidates[k] \notin
              Range(single_candidates(probe.dye_count, probe.max_volume))
              \cup Range(pair_candidates(probe.dye_count, probe.max_volume, probe.step))
              \cup Range(triple_candidates(probe.dye_count, probe.max_volume))

\* C15: generate_diverse_candidates returns at most n_samples mixtures.
C15_AtMostSamples ==
    (probe.fn = "generate_diverse_candidates" /\ probe.done) =>
        Len(probe.result.candidates) <= probe.n


\* C16: when generate_diverse_covering_combinations returns, its result has
\* exactly n_combinations mixtures and each of them has at least two nonzero
\* volumes.
C16_CoveringExact ==
    (/\ probe.fn = "generate_diverse_covering_combinations"
     /\ probe.done
     /\ probe.result.returned)
        => /\ Len(probe.result.combinations) = probe.n
           /\ \A k \in DOMAIN probe.result.combinations :
                 Cardinality(NonZero(probe.result.combinations[k])) >= 2

\* a returned call for two combinations of three dyes, the first of which
\* used all the dyes, so that the second came from the second loop
C16_Witness ==
    /\ probe.fn = "generate_diverse_covering_combinations"
    /\ probe.done
    /\ probe.result.returned
    /\ probe.n = 2
    /\ probe.dye_count = 3
    /\ Len(probe.result.combinations) = 2
    /\ Cardinality(NonZero(probe.result.combinations[1])) = 3


\* C17: with max_volume >= step >= 1 and every mixture random_combination
\* can return being drawn again and again, the call of
\* generate_diverse_covering_combinations returns.
C17_CoveringReturns == <>(probe.result.at = "returned")


\* C18: with an empty history the optimizer returns what random_combination
\* returns (and draws nothing else): dye_count volumes that sum to at most
\* max_volume.
C18_EmptyHistory ==
    (/\ probe.fn = "random_forest_optimize_next_experiment"
     /\ probe.done
     /\ probe.existing = <<>>)
        => /\ ~probe.result.raised
           /\ probe.result.volumes
                  = random_combination(probe.dye_count, probe.step,
                                       probe.max_volume, probe.rng).vols
           /\ probe.result.rng
                  = random_combination(probe.dye_count, probe.step,
                                       probe.max_volume, probe.rng).rng
           /\ Len(probe.result.volumes) = probe.dye_count
           /\ SumSeq(probe.result.volumes) <= probe.max_volume

\* C20: with a non-empty history no exception leaves the optimizer, whatever
\* fails in the fit, in the candidate pool, in the scaling of the candidates
\* or in the prediction; a failed fit makes it return what random_combination
\* returns.
C20_FailuresFallBack ==
    (/\ probe.fn = "random_forest_optimize_next_experiment"
     /\ probe.done
     /\ probe.existing # <<>>)
        => /\ ~probe.result.raised
           /\ sklearn = "fit_raises" =>
                 probe.result.volumes
                     = random_combination(probe.dye_count, probe.step,
                                          probe.max_volume, probe.rng).vols


\* C19: an experiment run at a counter below the number of covering
\* combinations uses the covering mixture at that index; the optimizer is
\* called only at a counter of at least that number, with a history as long
\* as the counter; and the history of a target that is not completed is as
\* long as its counter.
C19_CoveringFirst ==
    /\ last.kind \in {"experiment", "raised"} =>
          /\ last.iteration < Len(row_data[last.row].covering_combinations) =>
                /\ last.source = "covering"
                /\ last.volumes
                       = row_data[last.row].covering_combinations[last.iteration + 1]
          /\ last.source = "optimizer" =>
                /\ last.iteration >= Len(row_data[last.row].covering_combinations)
                /\ last.history = last.iteration
                /\ last.history >= Len(row_data[last.row].covering_combinations)
    /\ last.kind \in {"hung", "failed"} =>
          /\ last.source = "optimizer"
          /\ last.iteration >= Len(row_data[last.row].covering_combinations)
          /\ last.history = last.iteration
    /\ \A r \in Rows :
          ~row_data[r].completed =>
              Len(row_data[r].X_train) = row_data[r].current_iteration

\* the optimizer's first experiment for the second target, after all the
\* covering mixtures of that target
C19_Witness ==
    /\ last.kind = "experiment"
    /\ last.source = "optimizer"
    /\ last.row = rows_to_process[2]
    /\ last.iteration = Len(row_data[last.row].covering_combinations)
    /\ \A k \in 1..last.iteration :
          row_data[last.row].X_train[k] = row_data[last.row].covering_combinations[k]


C22_WithinTolerance ==
    (probe.fn = "within_tolerance" /\ probe.done) =>
        (probe.result = TRUE) <=>
            /\ probe.tolerance >= 0
            /\ SqDistance(probe.color, probe.target_rgb)
                   <= probe.tolerance * probe.tolerance

\* the boundary: a colour two channels away from the target, at a distance
\* equal to the tolerance
C22_Witness ==
    /\ probe.fn = "within_tolerance" /\ probe.done
    /\ probe.result = TRUE
    /\ probe.tolerance = 5
    /\ SqDistance(probe.color, probe.target_rgb) = 25
    /\ Cardinality({i \in 1..3 : probe.color[i] # probe.target_rgb[i]}) = 2


\* C23: for every target with experiments in its history, best_distance is
\* the smallest distance to the target among the colours of the history and
\* best_match is the mixture of the earliest experiment at that distance; a
\* target with an empty history has best_distance infinite and no best_match.
C23_BestIsEarliestMinimum ==
    \A r \in Rows :
        LET d == row_data[r]
            dist(i) == SqDistance(d.Y_train[i], d.target_color)
        IN  /\ Len(d.X_train) = Len(d.Y_train)
            /\ IF d.X_train = <<>>
               THEN d.best_distance = Infinity /\ d.best_match = <<>>
               ELSE \E i \in DOMAIN d.X_train :
                       /\ \A j \in DOMAIN d.X_train : dist(j) >= dist(i)
                       /\ \A j \in 1..(i - 1) : dist(j) > dist(i)
                       /\ d.best_distance = dist(i)
                       /\ d.best_match = d.X_train[i]

\* a target whose experiments all measured the same distance, so that the
\* first of its mixtures is the best match, beside a target with no
\* experiment yet
C23_Witness ==
    /\ \E r \in Rows :
          /\ Len(row_data[r].X_train) >= 3
          /\ row_data[r].best_match = row_data[r].X_train[1]
          /\ row_data[r].X_train[2] # row_data[r].X_train[1]
          /\ row_data[r].X_train[3] # row_data[r].X_train[1]
    /\ \E r \in Rows : row_data[r].X_train = <<>> /\ row_data[r].best_match = <<>>


\* What a call of active_learning leaves of the targets its cursor did not
\* select: their state as it was, or as created if this is the first call.
C24_OtherTargetsUntouched ==
    (calls' = calls + 1) =>
        \A r \in DOMAIN row_data' :
            r # last'.row =>
                IF initialized
                THEN row_data'[r] = row_data[r]
                ELSE row_data'[r] = new_row_data(row_data'[r].target_color,
                                                 row_data'[r].covering_combinations)

\* C24: a call of active_learning changes the search state (history,
\* counter, best match and distance, completed flag) of no target but the
\* one its cursor selects; the first call, which creates the targets, leaves
\* every other target as created.
C24_OneTargetPerCall == [][C24_OtherTargetsUntouched]_vars

\* an experiment for the second target, at a counter above 0, after the
\* first target used up its budget
C24_Witness ==
    /\ last.kind = "experiment"
    /\ last.row = rows_to_process[2]
    /\ last.iteration >= 1
    /\ row_data[rows_to_process[1]].completed
    /\ row_data[rows_to_process[1]].current_iteration = MAX_ITERATIONS
    /\ row_data[last.row].X_train # <<>>


\* The call that finds the counter at MAX_ITERATIONS: nothing dispensed,
\* nothing measured, and a history of exactly MAX_ITERATIONS experiments.
C25_ExhaustedCall ==
    last.kind = "exhausted" =>
        /\ last.iteration = MAX_ITERATIONS
        /\ last.volumes = <<>>
        /\ last.add_color_calls = <<>>
        /\ last.measured = <<>>
        /\ row_data[last.row].completed
        /\ Len(row_data[last.row].X_train) = MAX_ITERATIONS
        /\ Len(row_data[last.row].Y_train) = MAX_ITERATIONS

\* That call changes the completed flag of its target and nothing else of
\* it, nor the plate, nor the state of the random module.
C25_ExhaustedFrame ==
    (calls' = calls + 1 /\ last'.kind = "exhausted") =>
        /\ ~row_data[last'.row].completed
        /\ row_data'[last'.row] = [row_data[last'.row] EXCEPT !.completed = TRUE]
        /\ plate' = plate
        /\ well_uses' = well_uses
        /\ random_state' = random_state

\* C25: a target none of whose measurements is within tolerance is marked
\* completed with exactly MAX_ITERATIONS experiments recorded, by a call
\* (made when its counter equals MAX_ITERATIONS) that dispenses nothing,
\* reads no colour and leaves the target's history, counter and best match
\* as they were.
C25_ExhaustedStep ==
    /\ [](C25_ExhaustedCall
          /\ \A r \in Rows : (row_data[r].completed /\ Matches(r) = {})
                                => Len(row_data[r].X_train) = MAX_ITERATIONS)
    /\ [][C25_ExhaustedFrame]_vars

\* the first target exhausted, its best match still the first covering
\* mixture, and the main loop going on to the next target
C25_Witness ==
    /\ last.kind = "exhausted"
    /\ last.row = rows_to_process[1]
    /\ pc = "loop"
    /\ current_row = rows_to_process[2]
    /\ row_data[last.row].best_match = row_data[last.row].covering_combinations[1]


\* C26: of the pooled candidates that share the largest acquisition score,
\* the optimizer returns the one that comes first in the pool.
C26_FirstOfTheBest ==
    (/\ probe.fn = "random_forest_optimize_next_experiment"
     /\ probe.done
     /\ probe.result.via = "scoring")
        => \E i \in maximal_indices(probe.result.acquisition) :
              /\ probe.result.volumes = probe.result.candidates[i]
              /\ \A j \in maximal_indices(probe.result.acquisition) : i <= j


\* A pass of the second loop that drew the mixture vols appends it whenever
\* it has two nonzero volumes or more.
C27_FillPassAppends(vols) ==
    (/\ probe.fn = "covering_loop"
     /\ probe.result.at = "fill"
     /\ cover_loop_pass(vols)
     /\ Cardinality(NonZero(vols)) >= 2)
        => probe'.result.loop.combinations
               = Append(probe.result.loop.combinations, vols)

\* C27: once the first loop of generate_diverse_covering_combinations has
\* ended short of n_combinations, the second loop appends every mixture of
\* two dyes or more that random_combination returns, also one that equals
\* a mixture accepted before.
C27_FillTakesDuplicates == [][\A vols \in Mixtures : C27_FillPassAppends(vols)]_vars


\* C28: in every call the controller makes of the optimizer (3 dyes, 200 of
\* volume, step 1, a history of at most 10 mixtures) the candidate pool is
\* not empty: the call does not end in the empty-pool loop, neither with a
\* mixture from it nor caught in it.
C28_PoolNotEmpty ==
    last.source = "optimizer" =>
        /\ last.history <= MAX_ITERATIONS - 1
        /\ last.via # "retry"
        /\ last.kind # "hung"
        /\ last.via = "scoring" => last.volumes # <<>>

\* the optimizer's last call for a target: ten mixtures in the history, four
\* of them structured candidates the optimizer had chosen from the head of
\* its pool
C28_Witness ==
    /\ last.kind = "experiment"
    /\ last.source = "optimizer"
    /\ last.via = "scoring"
    /\ sklearn = "ranks_first"
    /\ last.history = MAX_ITERATIONS - 1
    /\ single_candidate(1, Len(color_slots), MAX_WELL_VOLUME)
           \in Range(row_data[last.row].X_train)

\* C29: in every call the controller makes of the optimizer the history
\* holds 4 to 10 mixtures, so that the exploration weight is never 2.0: it
\* is 1.0 for 4 to 7 mixtures and 0.5 for 8 to 10.
C29_ExplorationWeight ==
    last.source = "optimizer" =>
        /\ 4 <= last.history /\ last.history <= 10
        /\ last.via = "scoring" =>
              /\ last.exploration_weight # 20
              /\ last.history \in 4..7 => last.exploration_weight = 10
              /\ last.history \in 8..10 => last.exploration_weight = 5

\* a call that scored its pool with seven mixtures in the history
C29_Witness ==
    /\ last.kind = "experiment"
    /\ last.source = "optimizer"
    /\ last.via = "scoring"
    /\ last.history = 7
    /\ last.exploration_weight = 10


\* C30: the listener calls the functions of the actions in args.json only in
\* an iteration of its loop that read is_updated = true; an iteration that
\* read is_updated = false calls none and does not write the file.
C30_OnlyWhenUpdated ==
    remote.pos # "none" =>
        /\ remote.called # <<>> => remote.read_is_updated = "true"
        /\ remote.read_is_updated = "false" => (remote.called = <<>> /\ ~remote.wrote)


\* The listener's write-back wrote over no batch of one action or more that
\* it had not read.
C31_NoBatchOverwritten ==
    remote.pos # "none" => \A b \in remote.lost : remote.uploaded[b] = 0

\* The batch of the call of execute_actions_on_remote under way has been
\* uploaded.
C31_Uploaded == remote.pos # "none" /\ remote.controller = "wait"

\* The call has returned after the listener ran the actions of its batch.
C31_ExecutedAndReturned ==
    /\ remote.controller = "idle"
    /\ remote.batches \in remote.executed

====
